---- MODULE Spec2Model ----
(***************************************************************************)
(* Knowledge-graph core of osint-poc: the Neo4j-backed graph service       *)
(* (app/services/graph_service.py) and the in-process networkx graph       *)
(* (app/services/nlp_service.py).                                          *)
(*                                                                         *)
(* A Python str is a sequence of one-character strings, so an f-string is  *)
(* a concatenation and a derived key can be compared character by          *)
(* character.  A Python list whose order the store does not fix (the rows  *)
(* of a Cypher MATCH) is a bag.                                            *)
(***************************************************************************)
EXTENDS Bags, FiniteSets, Integers, Sequences, TLC

VARIABLES
    neo4j,      \* the Neo4j store: [nodes: bag of nodes, rels: bag of relationships]
    pc,         \* per writer: the statement build_knowledge_graph runs next
    clearing,   \* per writer: clear_existing of the call in flight
    left,       \* per writer: items of analysis.items not yet started
    item,       \* per writer: the loop variable `item`
    ei,         \* per writer: index of the next entity of item.entities
    nx,         \* nlp_service._graph, the ephemeral networkx graph
    req,        \* per HTTP handler thread: the /analyze request in progress
    resp,       \* the value the last query returned
    hist,       \* history of the last ingestion (graph before it, its batch)
    derived,    \* two key derivations: their inputs and, once made, their keys
    app,        \* main.lifespan: its phase and what verify_connectivity gave
    _driver,    \* Neo4jGraphService._driver: None or the driver object
    drivers,    \* number of driver objects created and not yet closed
    sessions,   \* number of sessions opened and not yet closed
    schema,     \* the uniqueness constraints the store holds
    call,       \* the graph_service operation in flight, if any
    thr         \* per request thread: the function it runs and its position in it

\* the state of the service's connection handling and of the application
life == <<app, _driver, drivers, sessions, schema, call, thr>>

vars == <<neo4j, pc, clearing, left, item, ei, nx, req, resp, hist, derived, life>>

----------------------------------------------------------------------------
(* Bounds and input domains *)

MaxItems == 2
MaxStrLen == 2

Writers == {"w1", "w2"}
Handlers == {"h1"}
Threads == {"t1", "t2"}

PostIdS == {<<"1">>, <<"2">>}
AuthorS == {<<"a">>, <<"b">>}
PlatformS == {<<"t">>, <<"f">>}
TextS == {<<"x">>, <<"y">>}

\* data_ingestion.Post (the optional fields are never read by the graph code)
Post(id, platform, author, text) ==
    [id |-> id, platform |-> platform, author |-> author, text |-> text]

\* The posts a request may carry: two posts that share an id and differ in
\* everything else, and a third that shares author and platform with the first
\* and text with the second.
Posts ==
    {Post(<<"1">>, <<"t">>, <<"a">>, <<"x">>),
     Post(<<"1">>, <<"f">>, <<"b">>, <<"y">>),
     Post(<<"2">>, <<"t">>, <<"a">>, <<"y">>)}

SeqsUpTo(S, n) == UNION {[1..k -> S] : k \in 0..n}

Batches == SeqsUpTo(Posts, MaxItems)

None == <<>>
Some(x) == <<x>>

----------------------------------------------------------------------------
(* nlp_service: sentiment, NER, analyze_posts *)

PosThreshold == 5
NegThreshold == -5

\* vader's compound score of a text, in hundredths
Compound(text) == IF text = <<"x">> THEN 50 ELSE IF text = <<"y">> THEN -50 ELSE 0

_sentiment(text) ==
    LET comp == Compound(text)
    IN  [label |-> IF comp >= PosThreshold THEN "positive"
                   ELSE IF comp <= NegThreshold THEN "negative"
                   ELSE "neutral",
         score |-> comp]

\* the entities the NER backend finds in a text
_ner(text) ==
    IF text = <<"x">> THEN << [text |-> <<"J">>, label |-> <<"G">>] >>
    ELSE IF text = <<"y">> THEN << [text |-> <<"J">>, label |-> <<"G">>],
                                  [text |-> <<"K">>, label |-> <<"G">>] >>
    ELSE << >>

PostAnalysisOf(p) ==
    [post_id |-> p.id, platform |-> p.platform, author |-> p.author,
     sentiment |-> _sentiment(p.text), entities |-> _ner(p.text), text |-> p.text]

CountLabel(items, l) == Cardinality({i \in DOMAIN items : items[i].sentiment.label = l})

\* one item per distinct post id: a post whose id came earlier is skipped
AnalyzeDistinctIds(posts) ==
    LET keep == SelectSeq([i \in DOMAIN posts |-> [i |-> i, p |-> posts[i]]],
                          LAMBDA x : \A j \in 1..(x.i - 1) : posts[j].id # x.p.id)
        items == [k \in DOMAIN keep |-> PostAnalysisOf(keep[k].p)]
    IN  [items |-> items,
         stats |-> [total_posts |-> Len(items),
                    positive |-> CountLabel(items, "positive"),
                    neutral |-> CountLabel(items, "neutral"),
                    negative |-> CountLabel(items, "negative")]]

analyze_posts(posts) ==
    LET items == [i \in DOMAIN posts |-> PostAnalysisOf(posts[i])]
    IN  [items |-> items,
         stats |-> [total_posts |-> Len(posts),
                    positive |-> CountLabel(items, "positive"),
                    neutral |-> CountLabel(items, "neutral"),
                    negative |-> CountLabel(items, "negative")]]

----------------------------------------------------------------------------
(* Identity keys: the f-strings of both backends *)

PostPrefix == <<"p", "o", "s", "t", ":">>
UserPrefix == <<"u", "s", "e", "r", ":">>
PlatformPrefix == <<"p", "l", "a", "t", "f", "o", "r", "m", ":">>
EntityPrefix == <<"e", "n", "t", "i", "t", "y", ":">>

Neo4jPostKey(post_id) == PostPrefix \o post_id
Neo4jUserKey(author) == UserPrefix \o author
Neo4jPlatformKey(platform) == PlatformPrefix \o platform
Neo4jEntityKey(label, text) == EntityPrefix \o label \o <<":">> \o text

NxPostKey(post_id) == PostPrefix \o post_id

\* the separator forgotten in one of the f-strings
UserKeyNoColon(author) == <<"u", "s", "e", "r">> \o author

NxUserKey(author) == UserPrefix \o author
NxPlatformKey(platform) == PlatformPrefix \o platform
NxEntityKey(label, text) == EntityPrefix \o label \o <<":">> \o text

----------------------------------------------------------------------------
(* The Neo4j store and the Cypher statements of graph_service.py.          *)
(* A node is [lbl, props]; a relationship is [start, end, type] and names  *)
(* its end nodes by their id property, the only thing of an end node any   *)
(* query of the service returns (a.id, b.id, startNode(r).id).             *)

EmptyStore == [nodes |-> EmptyBag, rels |-> EmptyBag]

\* the nodes MATCH (n:lbl {id: id}) binds
Matches(ns, lbl, id) == {r \in BagToSet(ns) : r.lbl = lbl /\ r.props.id = id}

RECURSIVE SumCopies(_, _)
SumCopies(B, S) ==
    IF S = {} THEN 0
    ELSE LET x == CHOOSE y \in S : TRUE
         IN  CopiesIn(x, B) + SumCopies(B, S \ {x})

\* number of rows MATCH (n:lbl {id: id}) yields
Rows(ns, lbl, id) == SumCopies(ns, Matches(ns, lbl, id))

\* CREATE in place of MERGE: a new node whether or not one matches
CreateNode(ns, lbl, id, sets) ==
    ns (+) SetToBag({[lbl |-> lbl, props |-> sets @@ [id |-> id]]})

\* the SETs made ON CREATE only: a node that already exists keeps what it has
MergeKeepFirst(ns, lbl, id, sets) ==
    IF Matches(ns, lbl, id) = {}
    THEN ns (+) SetToBag({[lbl |-> lbl, props |-> sets @@ [id |-> id]]})
    ELSE ns

\* MERGE (n:lbl {id: id}) SET n.k = v, ...: create if absent, else update in place
MergeNode(ns, lbl, id, sets) ==
    IF Matches(ns, lbl, id) = {}
    THEN ns (+) SetToBag({[lbl |-> lbl, props |-> sets @@ [id |-> id]]})
    ELSE BagOfAll(LAMBDA r : IF r.lbl = lbl /\ r.props.id = id
                              THEN [r EXCEPT !.props = sets @@ r.props]
                              ELSE r, ns)

\* CREATE in place of MERGE: a relationship per row whether or not one exists
CreateRel(rs, rows, startId, type, endId) ==
    IF rows = 0 THEN rs
    ELSE rs (+) [x \in {[start |-> startId, end |-> endId, type |-> type]} |-> rows]

\* MERGE (a)-[:type]->(b) for every row (a, b): create the relationship a row lacks
MergeRel(rs, rows, startId, type, endId) ==
    LET rel == [start |-> startId, end |-> endId, type |-> type]
        have == CopiesIn(rel, rs)
    IN  IF have >= rows THEN rs ELSE rs (+) [x \in {rel} |-> rows - have]

\* graph_service.py:100-109
StmtPost(st, it) ==
    [st EXCEPT !.nodes = MergeNode(st.nodes, "Post", Neo4jPostKey(it.post_id),
                                   [text |-> it.text,
                                    sentiment |-> it.sentiment.label,
                                    score |-> it.sentiment.score])]

\* graph_service.py:112-123
StmtUser(st, it) ==
    LET uid == Neo4jUserKey(it.author)
        pid == Neo4jPostKey(it.post_id)
        ns == MergeNode(st.nodes, "User", uid, [name |-> it.author])
    IN  [nodes |-> ns,
         rels |-> MergeRel(st.rels, Rows(ns, "User", uid) * Rows(ns, "Post", pid),
                           uid, "POSTED", pid)]

\* graph_service.py:126-137
StmtPlatform(st, it) ==
    LET plid == Neo4jPlatformKey(it.platform)
        pid == Neo4jPostKey(it.post_id)
        ns == MergeNode(st.nodes, "Platform", plid, [name |-> it.platform])
    IN  [nodes |-> ns,
         rels |-> MergeRel(st.rels, Rows(ns, "Platform", plid) * Rows(ns, "Post", pid),
                           pid, "ON", plid)]

\* graph_service.py:141-153
StmtEntity(st, it, ent) ==
    LET eid == Neo4jEntityKey(ent.label, ent.text)
        pid == Neo4jPostKey(it.post_id)
        ns == MergeNode(st.nodes, "Entity", eid, [text |-> ent.text, label |-> ent.label])
    IN  [nodes |-> ns,
         rels |-> MergeRel(st.rels, Rows(ns, "Entity", eid) * Rows(ns, "Post", pid),
                           pid, "MENTIONS", eid)]

\* MATCH (n) DELETE n without DETACH: the relationships stay
ClearNodesOnly(st) == [st EXCEPT !.nodes = EmptyBag]

\* graph_service.py:79-83, MATCH (n) DETACH DELETE n
clear_graph(st) == EmptyStore

RECURSIVE ApplyEntities(_, _, _)
ApplyEntities(st, it, i) ==
    IF i > Len(it.entities) THEN st
    ELSE ApplyEntities(StmtEntity(st, it, it.entities[i]), it, i + 1)

ApplyItem(st, it) ==
    ApplyEntities(StmtPlatform(StmtUser(StmtPost(st, it), it), it), it, 1)

RECURSIVE ApplyItems(_, _, _)
ApplyItems(st, items, i) ==
    IF i > Len(items) THEN st
    ELSE ApplyItems(ApplyItem(st, items[i]), items, i + 1)

\* the guard dropped the other way: every call clears first
AlwaysClear(clear_existing) == TRUE

\* the guard dropped: the batch is always applied onto the existing graph
NeverClear(clear_existing) == FALSE

\* the guard of graph_service.py:94
ShouldClear(clear_existing) == clear_existing

\* Neo4jGraphService.build_knowledge_graph run to completion by a single caller
build_knowledge_graph(st, analysis, clear_existing) ==
    ApplyItems(IF ShouldClear(clear_existing) THEN clear_graph(st) ELSE st,
               analysis.items, 1)

----------------------------------------------------------------------------
(* Queries of graph_service.py *)

\* str.lower() on the node labels the service creates
Lower(lbl) ==
    CASE lbl = "Post" -> "post"
      [] lbl = "User" -> "user"
      [] lbl = "Platform" -> "platform"
      [] lbl = "Entity" -> "entity"

\* COALESCE(n.text, n.name, n.id): the text before the name
CoalesceTextFirst(props) ==
    IF "text" \in DOMAIN props THEN props.text
    ELSE IF "name" \in DOMAIN props THEN props.name
    ELSE props.id

\* COALESCE(n.name, n.text, n.id)
Coalesce(props) ==
    IF "name" \in DOMAIN props THEN props.name
    ELSE IF "text" \in DOMAIN props THEN props.text
    ELSE props.id

GraphNodeOf(r) == [id |-> r.props.id, label |-> Coalesce(r.props), type |-> Lower(r.lbl)]

GraphEdgeOf(r) == [source |-> r.start, target |-> r.end, label |-> r.type]

\* the relationships matched without direction, (a)-[r]-(b): each one twice
GetGraphBothWays(st) ==
    [nodes |-> BagOfAll(GraphNodeOf, st.nodes),
     edges |-> BagOfAll(GraphEdgeOf, st.rels)
               (+) BagOfAll(LAMBDA r : [source |-> r.end, target |-> r.start,
                                        label |-> r.type], st.rels)]

\* Neo4jGraphService.get_graph_response
get_graph_response(st) ==
    [nodes |-> BagOfAll(GraphNodeOf, st.nodes),
     edges |-> BagOfAll(GraphEdgeOf, st.rels)]

\* the {id: $node_id} filter dropped from the MATCH
GetAnyNode(st, node_id) ==
    IF BagToSet(st.nodes) = {} THEN {None}
    ELSE {Some(GraphNodeOf(r)) : r \in BagToSet(st.nodes)}

\* Neo4jGraphService.get_node_by_id: the values result.single() may give
get_node_by_id(st, node_id) ==
    LET found == {r \in BagToSet(st.nodes) : r.props.id = node_id}
    IN  IF found = {} THEN {None} ELSE {Some(GraphNodeOf(r)) : r \in found}

\* every edge centred on the queried node
CenteredDirection(node_id, other_id, rel_start, rel_type) ==
    [source |-> node_id, target |-> other_id, label |-> rel_type]

\* graph_service.py:253-265: the edge reported for a row of the neighbour query
ResolveDirection(node_id, other_id, rel_start, rel_type) ==
    IF rel_start = node_id
    THEN [source |-> node_id, target |-> other_id, label |-> rel_type]
    ELSE [source |-> other_id, target |-> node_id, label |-> rel_type]

\* rows of MATCH (n {id: $node_id})-[r]->(m): the outgoing relationships only
OutgoingRows(st, node_id) ==
    LET inc == {r \in BagToSet(st.rels) : r.start = node_id}
        rowsOf(r) == {[m |-> m, rel |-> r] :
                        m \in {n \in BagToSet(st.nodes) : n.props.id = r.end}}
        all == UNION {rowsOf(r) : r \in inc}
    IN  [row \in all |-> CopiesIn(row.rel, st.rels) * CopiesIn(row.m, st.nodes)]

\* rows of MATCH (n {id: $node_id})-[r]-(m): one per relationship and end node m
NeighborRows(st, node_id) ==
    LET inc == {r \in BagToSet(st.rels) : r.start = node_id \/ r.end = node_id}
        other(r) == IF r.start = node_id THEN r.end ELSE r.start
        rowsOf(r) == {[m |-> m, rel |-> r] :
                        m \in {n \in BagToSet(st.nodes) : n.props.id = other(r)}}
        all == UNION {rowsOf(r) : r \in inc}
    IN  [row \in all |-> CopiesIn(row.rel, st.rels) * CopiesIn(row.m, st.nodes)]

\* Neo4jGraphService.get_neighbors, given the center get_node_by_id returned
get_neighbors(st, node_id, center) ==
    LET rows == NeighborRows(st, node_id)
    IN  [center |-> center,
         nodes |-> BagOfAll(LAMBDA row : GraphNodeOf(row.m), rows),
         edges |-> BagOfAll(LAMBDA row : ResolveDirection(node_id, row.m.props.id,
                                                          row.rel.start, row.rel.type),
                            rows)]

----------------------------------------------------------------------------
(* The ephemeral backend: nlp_service._graph, a networkx.Graph.  The graph  *)
(* is undirected: it keeps its nodes in insertion order and, per node, its  *)
(* neighbours in insertion order; an edge's data is shared by both ends.    *)

NoFcn == [x \in {} |-> x]

\* nx.Graph()
NxEmpty == [order |-> << >>, attr |-> NoFcn, adj |-> NoFcn]

\* Graph.add_node(n, **attrs)
add_node(g, n, attrs) ==
    IF n \in DOMAIN g.attr
    THEN [g EXCEPT !.attr[n] = attrs @@ @]
    ELSE [order |-> Append(g.order, n),
          attr |-> g.attr @@ (n :> attrs),
          adj |-> g.adj @@ (n :> << >>)]

\* self._adj[u][v] = datadict
PutNbr(nbrs, v, data) ==
    IF \E i \in DOMAIN nbrs : nbrs[i].nbr = v
    THEN [i \in DOMAIN nbrs |-> IF nbrs[i].nbr = v
                                THEN [nbr |-> v, data |-> data @@ nbrs[i].data]
                                ELSE nbrs[i]]
    ELSE Append(nbrs, [nbr |-> v, data |-> data])

\* Graph.add_edge(u, v, **attrs)
add_edge(g, u, v, data) ==
    LET g1 == IF u \in DOMAIN g.attr THEN g ELSE add_node(g, u, NoFcn)
        g2 == IF v \in DOMAIN g1.attr THEN g1 ELSE add_node(g1, v, NoFcn)
    IN  [g2 EXCEPT !.adj = [n \in DOMAIN g2.adj |->
                              IF n = u THEN PutNbr(g2.adj[n], v, data)
                              ELSE IF n = v THEN PutNbr(g2.adj[n], u, data)
                              ELSE g2.adj[n]]]

\* nlp_service.py:105-112: the post, its author and its platform
NxAddItem(g, it) ==
    LET post_node == NxPostKey(it.post_id)
        user_node == NxUserKey(it.author)
        platform_node == NxPlatformKey(it.platform)
        g1 == add_node(g, post_node, [label |-> it.post_id, type |-> "post"])
        g2 == add_node(g1, user_node, [label |-> it.author, type |-> "user"])
        g3 == add_node(g2, platform_node, [label |-> it.platform, type |-> "platform"])
        g4 == add_edge(g3, user_node, post_node, [label |-> "POSTED"])
    IN  add_edge(g4, post_node, platform_node, [label |-> "ON"])

\* nlp_service.py:114-117: one entity of the post
NxAddEntity(g, it, ent) ==
    LET post_node == NxPostKey(it.post_id)
        ent_id == NxEntityKey(ent.label, ent.text)
        g1 == add_node(g, ent_id, [label |-> ent.text, type |-> "entity",
                                    entity_label |-> ent.label])
    IN  add_edge(g1, post_node, ent_id, [label |-> "MENTIONS"])

RECURSIVE NxApplyEntities(_, _, _)
NxApplyEntities(g, it, i) ==
    IF i > Len(it.entities) THEN g
    ELSE NxApplyEntities(NxAddEntity(g, it, it.entities[i]), it, i + 1)

RECURSIVE NxApplyItems(_, _, _)
NxApplyItems(g, items, i) ==
    IF i > Len(items) THEN g
    ELSE NxApplyItems(NxApplyEntities(NxAddItem(g, items[i]), items[i], 1), items, i + 1)

\* nlp_service.build_knowledge_graph run to completion
nx_build_knowledge_graph(analysis) == NxApplyItems(NxEmpty, analysis.items, 1)

\* Graph.edges(data=True): every node in insertion order, each neighbour not
\* yet visited as a node
RECURSIVE NxEdges(_, _, _)
NxEdges(g, i, seen) ==
    IF i > Len(g.order) THEN << >>
    ELSE LET n == g.order[i]
             fresh == SelectSeq(g.adj[n], LAMBDA a : a.nbr \notin seen)
         IN  [k \in DOMAIN fresh |-> [u |-> n, v |-> fresh[k].nbr, data |-> fresh[k].data]]
             \o NxEdges(g, i + 1, seen \cup {n})

\* nlp_service.get_graph_response
nx_get_graph_response(g) ==
    LET es == NxEdges(g, 1, {})
    IN  [nodes |-> [i \in DOMAIN g.order |->
                      LET n == g.order[i]
                          data == g.attr[n]
                      IN  [id |-> n,
                           label |-> IF "label" \in DOMAIN data THEN data.label ELSE n,
                           type |-> IF "type" \in DOMAIN data THEN data.type ELSE "entity"]],
         edges |-> [k \in DOMAIN es |->
                      [source |-> es[k].u, target |-> es[k].v,
                       label |-> IF "label" \in DOMAIN es[k].data
                                 THEN es[k].data.label ELSE ""]]]

IdleReq == [pc |-> "idle"]

----------------------------------------------------------------------------
(* Sequential use of the Neo4j service: one caller, one operation at a time *)

NoHist == [op |-> "none"]
NoResp == [op |-> "none"]

QueryIds ==
    {Neo4jPostKey(p) : p \in PostIdS} \cup {Neo4jUserKey(a) : a \in AuthorS}
    \cup {Neo4jPlatformKey(p) : p \in PlatformS}
    \cup {Neo4jEntityKey(<<"G">>, <<"J">>), Neo4jPostKey(<<"0">>)}

NoDerivation == [a |-> None, b |-> None, ka |-> None, kb |-> None]

\* no graph_service operation is in flight
NoCall == [op |-> "none"]

\* a request thread that runs nothing
IdleThread == [pc |-> "idle"]

\* the application before lifespan's startup part has run
NotStarted == [phase |-> "startup", verify |-> "not_run"]

InitBase ==
    /\ neo4j = EmptyStore
    /\ pc = [w \in Writers |-> "idle"]
    /\ clearing = [w \in Writers |-> FALSE]
    /\ left = [w \in Writers |-> 0]
    /\ item = [w \in Writers |-> None]
    /\ ei = [w \in Writers |-> 0]
    /\ nx = NxEmpty
    /\ req = [h \in Handlers |-> IdleReq]
    /\ resp = NoResp
    /\ hist = NoHist
    /\ app = NotStarted
    /\ _driver = None
    /\ drivers = 0
    /\ sessions = 0
    /\ schema = {}
    /\ call = NoCall
    /\ thr = [t \in Threads |-> IdleThread]

Init == InitBase /\ derived = NoDerivation

\* one complete build_knowledge_graph call
SeqIngest(batch, clear_existing) ==
    /\ neo4j' = build_knowledge_graph(neo4j, analyze_posts(batch), clear_existing)
    /\ hist' = [op |-> "ingest", batch |-> batch, clear |-> clear_existing,
                before |-> neo4j,
                same |-> hist.op = "ingest" /\ hist.batch = batch,
                prev |-> IF hist.op = "ingest" /\ hist.pure THEN Some(hist.batch) ELSE None,
                pure |-> clear_existing \/ neo4j = EmptyStore]
    /\ resp' = NoResp
    /\ UNCHANGED <<pc, clearing, left, item, ei, nx, req, derived, life>>

SeqGetGraph ==
    /\ resp' = [op |-> "get_graph_response", value |-> get_graph_response(neo4j)]
    /\ hist' = NoHist
    /\ UNCHANGED <<neo4j, pc, clearing, left, item, ei, nx, req, derived, life>>

SeqGetNode(q) ==
    /\ \E v \in get_node_by_id(neo4j, q) :
          resp' = [op |-> "get_node_by_id", arg |-> q, value |-> v]
    /\ hist' = NoHist
    /\ UNCHANGED <<neo4j, pc, clearing, left, item, ei, nx, req, derived, life>>

SeqGetNeighbors(q) ==
    /\ \E c \in get_node_by_id(neo4j, q) :
          resp' = [op |-> "get_neighbors", arg |-> q, value |-> get_neighbors(neo4j, q, c)]
    /\ hist' = NoHist
    /\ UNCHANGED <<neo4j, pc, clearing, left, item, ei, nx, req, derived, life>>

\* nodes as a query may meet them: with or without a name, with or without a text
LabelInputs ==
    {[lbl |-> l, props |-> [id |-> <<"i">>] @@ n @@ t] :
        l \in {"Post", "User", "Platform", "Entity"},
        n \in {[x \in {} |-> x], [name |-> <<"n">>]},
        t \in {[x \in {} |-> x], [text |-> <<"t">>]}}

\* the RETURN clause of the node queries (graph_service.py:171-173, 208-210,
\* 239-241) evaluated for a node n
ReturnClause(n) ==
    /\ resp' = [op |-> "return_clause", arg |-> n, value |-> GraphNodeOf(n)]
    /\ hist' = NoHist
    /\ UNCHANGED <<neo4j, pc, clearing, left, item, ei, nx, req, derived, life>>

NextSeq ==
    \/ \E b \in Batches, c \in BOOLEAN : SeqIngest(b, c)
    \/ \E n \in LabelInputs : ReturnClause(n)
    \/ SeqGetGraph
    \/ \E q \in QueryIds : SeqGetNode(q)
    \/ \E q \in QueryIds : SeqGetNeighbors(q)

SpecSeq == Init /\ [][NextSeq]_vars

\* C28: every post node has at most one POSTED relationship coming in and at
\* most one ON relationship going out, also after its id was ingested again
\* with another author or platform.
C28_OneAuthorOnePlatform ==
    \A p \in BagToSet(neo4j.nodes) :
        p.lbl = "Post" =>
            /\ SumCopies(neo4j.rels, {r \in BagToSet(neo4j.rels) :
                                         r.type = "POSTED" /\ r.end = p.props.id}) <= 1
            /\ SumCopies(neo4j.rels, {r \in BagToSet(neo4j.rels) :
                                         r.type = "ON" /\ r.start = p.props.id}) <= 1

----------------------------------------------------------------------------
(* Concurrent callers of Neo4jGraphService.build_knowledge_graph.  Every    *)
(* session.run is an auto-commit transaction, so a call is a sequence of    *)
(* atomic statements that interleaves with the statements of other calls.   *)
(* The items of the batch are drawn as the loop reaches them.               *)

AfterItem(n) == IF n = 0 THEN "idle" ELSE "post"

\* graph_service.py:86-97: the call starts
Begin(w, n, clear_existing) ==
    /\ pc[w] = "idle"
    /\ n > 0 \/ ShouldClear(clear_existing)
    /\ pc' = [pc EXCEPT ![w] = IF ShouldClear(clear_existing) THEN "clear"
                               ELSE AfterItem(n)]
    /\ clearing' = [clearing EXCEPT ![w] = clear_existing]
    /\ left' = [left EXCEPT ![w] = n]
    /\ UNCHANGED <<neo4j, item, ei, nx, req, resp, hist, derived, life>>

\* graph_service.py:95, clear_graph in its own session
Clear(w) ==
    /\ pc[w] = "clear"
    /\ neo4j' = clear_graph(neo4j)
    /\ pc' = [pc EXCEPT ![w] = AfterItem(left[w])]
    /\ clearing' = [clearing EXCEPT ![w] = clearing[w] /\ left[w] > 0]
    /\ UNCHANGED <<left, item, ei, nx, req, resp, hist, derived, life>>

\* graph_service.py:98-109: the next item and its Post statement
RunPost(w, p) ==
    /\ pc[w] = "post"
    /\ left[w] > 0
    /\ item' = [item EXCEPT ![w] = Some(PostAnalysisOf(p))]
    /\ neo4j' = StmtPost(neo4j, PostAnalysisOf(p))
    /\ left' = [left EXCEPT ![w] = left[w] - 1]
    /\ pc' = [pc EXCEPT ![w] = "user"]
    /\ UNCHANGED <<clearing, ei, nx, req, resp, hist, derived, life>>

\* graph_service.py:112-123
RunUser(w) ==
    /\ pc[w] = "user"
    /\ neo4j' = StmtUser(neo4j, item[w][1])
    /\ pc' = [pc EXCEPT ![w] = "platform"]
    /\ UNCHANGED <<clearing, left, item, ei, nx, req, resp, hist, derived, life>>

\* the item is done: on to the next one, or the call returns
ItemDone(w) ==
    /\ pc' = [pc EXCEPT ![w] = AfterItem(left[w])]
    /\ item' = [item EXCEPT ![w] = None]
    /\ ei' = [ei EXCEPT ![w] = 0]
    /\ clearing' = [clearing EXCEPT ![w] = clearing[w] /\ left[w] > 0]

\* graph_service.py:126-137
RunPlatform(w) ==
    /\ pc[w] = "platform"
    /\ neo4j' = StmtPlatform(neo4j, item[w][1])
    /\ IF item[w][1].entities = << >>
       THEN ItemDone(w)
       ELSE /\ pc' = [pc EXCEPT ![w] = "entity"]
            /\ ei' = [ei EXCEPT ![w] = 1]
            /\ UNCHANGED <<item, clearing>>
    /\ UNCHANGED <<left, nx, req, resp, hist, derived, life>>

\* graph_service.py:140-153
RunEntity(w) ==
    /\ pc[w] = "entity"
    /\ neo4j' = StmtEntity(neo4j, item[w][1], item[w][1].entities[ei[w]])
    /\ IF ei[w] = Len(item[w][1].entities)
       THEN ItemDone(w)
       ELSE /\ ei' = [ei EXCEPT ![w] = ei[w] + 1]
            /\ UNCHANGED <<pc, item, clearing>>
    /\ UNCHANGED <<left, nx, req, resp, hist, derived, life>>

Next ==
    \E w \in Writers :
        \/ \E n \in 0..MaxItems, c \in BOOLEAN : Begin(w, n, c)
        \/ Clear(w)
        \/ \E p \in Posts : RunPost(w, p)
        \/ RunUser(w)
        \/ RunPlatform(w)
        \/ RunEntity(w)

Spec == Init /\ [][Next]_vars

\* the store holds a relationship of the type between the two ids
Linked(st, startId, type, endId) ==
    [start |-> startId, end |-> endId, type |-> type] \in BagToSet(st.rels)

\* C27: whatever other calls do between the statements of a call, the User
\* statement of an item leaves the POSTED relationship from the item's author
\* to its post, the Platform statement the ON relationship from the post to
\* its platform, and each Entity statement the MENTIONS relationship from the
\* post to that entity.
C27_EdgesFollowNodes ==
    [][\A w \in Writers :
          /\ (pc[w] = "user" /\ pc'[w] # "user") =>
                Linked(neo4j', Neo4jUserKey(item[w][1].author), "POSTED",
                       Neo4jPostKey(item[w][1].post_id))
          /\ (pc[w] = "platform" /\ pc'[w] # "platform") =>
                Linked(neo4j', Neo4jPostKey(item[w][1].post_id), "ON",
                       Neo4jPlatformKey(item[w][1].platform))
          /\ (pc[w] = "entity" /\ ei'[w] # ei[w]) =>
                Linked(neo4j', Neo4jPostKey(item[w][1].post_id), "MENTIONS",
                       Neo4jEntityKey(item[w][1].entities[ei[w]].label,
                                      item[w][1].entities[ei[w]].text))]_vars

\* C6: no two nodes of the graph have the same id, whatever the interleaving of
\* the statements of concurrent ingestions.
C6_NoDuplicateNodes ==
    \A r1, r2 \in BagToSet(neo4j.nodes) :
        /\ CopiesIn(r1, neo4j.nodes) = 1
        /\ r1.props.id = r2.props.id => r1 = r2

C6_Witness ==
    /\ pc["w1"] = "platform" /\ pc["w2"] = "platform"
    /\ item["w1"][1].post_id = item["w2"][1].post_id
    /\ item["w1"][1].text # item["w2"][1].text
    /\ Rows(neo4j.nodes, "Post", Neo4jPostKey(item["w1"][1].post_id)) = 1

\* C10: a step removes a node or a relationship only if it is the clear of a
\* call made with clear_existing = True.
Keeps(st, st2) ==
    /\ \A r \in BagToSet(st.nodes) :
          Rows(st2.nodes, r.lbl, r.props.id) >= Rows(st.nodes, r.lbl, r.props.id)
    /\ \A r \in BagToSet(st.rels) : CopiesIn(r, st2.rels) >= CopiesIn(r, st.rels)

C10_OnlyReplaceDeletes ==
    [][\/ Keeps(neo4j, neo4j')
       \/ \E w \in Writers : pc[w] = "clear" /\ clearing[w] /\ pc'[w] # "clear"]_vars

C10_Witness ==
    /\ pc["w1"] = "idle" /\ ~clearing["w2"]
    /\ pc["w2"] = "platform" /\ left["w2"] = 0
    /\ \E r \in BagToSet(neo4j.nodes) :
          r.lbl = "Post" /\ r.props.id # Neo4jPostKey(item["w2"][1].post_id)


----------------------------------------------------------------------------
(* Properties of the sequential service *)

\* the snapshot of the graph a batch alone derives
Derived(batch) ==
    get_graph_response(build_knowledge_graph(EmptyStore, analyze_posts(batch), FALSE))

Ids(nodeBag) == {n.id : n \in BagToSet(nodeBag)}

\* C1: ingesting a batch in accumulate mode right after an ingestion of the same
\* batch leaves the snapshot (nodes, edges and their counts) as it was after the
\* first ingestion.
C1_Idempotent ==
    (hist.op = "ingest" /\ hist.same /\ ~hist.clear)
        => get_graph_response(neo4j) = get_graph_response(hist.before)

C1_Witness ==
    /\ hist.op = "ingest" /\ hist.same /\ ~hist.clear
    /\ Len(hist.batch) >= 2
    /\ hist.batch[1].id = hist.batch[2].id /\ hist.batch[1].text # hist.batch[2].text

\* C2 as stated: after A (into an empty or cleared graph) then B, the snapshot is
\* B's graph in replace mode and the union of A's and B's graphs in accumulate mode.
C2_ReplaceOrUnion ==
    (hist.op = "ingest" /\ hist.prev # None) =>
        LET dA == Derived(hist.prev[1])
            dB == Derived(hist.batch)
            snap == get_graph_response(neo4j)
        IN  IF hist.clear
            THEN snap = dB
            ELSE /\ BagToSet(snap.nodes) = BagToSet(dA.nodes) \cup BagToSet(dB.nodes)
                 /\ BagToSet(snap.edges) = BagToSet(dA.edges) \cup BagToSet(dB.edges)

\* C2 amended: in replace mode the snapshot is B's graph; in accumulate mode its
\* edges are the union of A's and B's edges and its nodes are B's nodes together
\* with the nodes of A whose id B does not derive, each node once.
C2_ReplaceOrMerge ==
    (hist.op = "ingest" /\ hist.prev # None) =>
        LET dA == Derived(hist.prev[1])
            dB == Derived(hist.batch)
            snap == get_graph_response(neo4j)
        IN  IF hist.clear
            THEN snap = dB
            ELSE /\ snap.nodes = SetToBag(BagToSet(dB.nodes) \cup
                                   {n \in BagToSet(dA.nodes) : n.id \notin Ids(dB.nodes)})
                 /\ snap.edges = SetToBag(BagToSet(dA.edges) \cup BagToSet(dB.edges))

C2_Witness ==
    /\ hist.op = "ingest" /\ hist.prev # None /\ ~hist.clear
    /\ \E i \in DOMAIN hist.prev[1], j \in DOMAIN hist.batch :
          /\ hist.prev[1][i].id = hist.batch[j].id
          /\ hist.prev[1][i].text # hist.batch[j].text
    /\ \E i \in DOMAIN hist.prev[1] :
          \A j \in DOMAIN hist.batch : hist.prev[1][i].id # hist.batch[j].id

\* C4: the edges get_neighbors(q) reports are the stored relationships incident
\* to q, each with the relationship's own start as source and end as target.
Incident(st, q) == {r \in BagToSet(st.rels) : r.start = q \/ r.end = q}

C4_DirectionResolved ==
    resp.op = "get_neighbors" =>
        BagToSet(resp.value.edges) = {GraphEdgeOf(r) : r \in Incident(neo4j, resp.arg)}

C4_Witness ==
    /\ resp.op = "get_neighbors"
    /\ resp.arg = Neo4jPlatformKey(<<"t">>)
    /\ [source |-> Neo4jPostKey(<<"1">>), target |-> Neo4jPlatformKey(<<"t">>),
        label |-> "ON"] \in BagToSet(resp.value.edges)

\* C9: get_node_by_id returns None when no node has the id, and the record of
\* a node with that id otherwise.
C9_AbsentLookup ==
    resp.op = "get_node_by_id" =>
        LET found == {r \in BagToSet(neo4j.nodes) : r.props.id = resp.arg}
        IN  IF found = {} THEN resp.value = None
            ELSE \E r \in found : resp.value = Some(GraphNodeOf(r))

C9_Witness ==
    /\ resp.op = "get_node_by_id"
    /\ resp.value = None
    /\ neo4j.nodes # EmptyBag

\* the last item of a batch that carries the post id of its i-th item
LastWithId(batch, i) ==
    batch[CHOOSE j \in DOMAIN batch :
            /\ batch[j].id = batch[i].id
            /\ \A k \in DOMAIN batch : batch[k].id = batch[i].id => k <= j]

\* C11: after an ingestion, every post id of the batch names exactly one Post
\* node, and the node's text, sentiment label and score are those of the last
\* record of the batch with that id, whatever the node held before.
C11_LastWriteWins ==
    hist.op = "ingest" =>
        \A i \in DOMAIN hist.batch :
            LET last == PostAnalysisOf(LastWithId(hist.batch, i))
                pid == Neo4jPostKey(hist.batch[i].id)
            IN  /\ Rows(neo4j.nodes, "Post", pid) = 1
                /\ \A r \in Matches(neo4j.nodes, "Post", pid) :
                      /\ r.props.text = last.text
                      /\ r.props.sentiment = last.sentiment.label
                      /\ r.props.score = last.sentiment.score

C11_Witness ==
    /\ hist.op = "ingest" /\ ~hist.clear
    /\ \E i \in DOMAIN hist.batch :
          \E r \in Matches(hist.before.nodes, "Post", Neo4jPostKey(hist.batch[i].id)) :
              /\ r.props.text # LastWithId(hist.batch, i).text
              /\ r.props.sentiment # _sentiment(LastWithId(hist.batch, i).text).label

\* the node records a query of the sequential service returned
ReturnedNodes ==
    CASE resp.op = "get_graph_response" -> BagToSet(resp.value.nodes)
      [] resp.op = "get_node_by_id" -> {resp.value[i] : i \in DOMAIN resp.value}
      [] resp.op = "get_neighbors" ->
            {resp.value.center[i] : i \in DOMAIN resp.value.center}
            \cup BagToSet(resp.value.nodes)
      [] OTHER -> {}

\* name, else text, else id
LabelByPriority(props) ==
    IF "name" \in DOMAIN props THEN props.name
    ELSE IF "text" \in DOMAIN props THEN props.text
    ELSE props.id

\* C19: every node record a query returns carries as label the stored node's
\* name if it has one, else its text if it has one, else its id; a user or
\* platform record is labelled with the name its id was derived from, a post
\* or entity record with the node's text.
C19_LabelPriority ==
    /\ resp.op = "return_clause" => resp.value.label = LabelByPriority(resp.arg.props)
    /\ \A n \in ReturnedNodes :
          \E r \in BagToSet(neo4j.nodes) :
              /\ r.props.id = n.id
              /\ n.label = LabelByPriority(r.props)
              /\ n.type \in {"user", "platform"} =>
                    /\ "name" \in DOMAIN r.props /\ n.label = r.props.name
                    /\ n.id = (IF n.type = "user" THEN UserPrefix ELSE PlatformPrefix)
                              \o n.label
              /\ n.type \in {"post", "entity"} =>
                    /\ "text" \in DOMAIN r.props /\ n.label = r.props.text

\* the record of a node that has both a name and a text, made while the graph
\* holds posts
C19_Witness ==
    /\ resp.op = "return_clause"
    /\ {"name", "text"} \subseteq DOMAIN resp.arg.props
    /\ \E r \in BagToSet(neo4j.nodes) : r.lbl = "Post"

\* the ids of the nodes one stored relationship away from q, in either direction
AdjacentIds(st, q) ==
    {r.end : r \in {x \in BagToSet(st.rels) : x.start = q}}
    \cup {r.start : r \in {x \in BagToSet(st.rels) : x.end = q}}

\* C20: for a node q of the graph, get_neighbors(q) returns q's own record
\* first, then one record for each node adjacent to q by a stored relationship
\* in either direction and for no other node, and one edge record, labelled
\* with the relationship's type, for each stored relationship incident to q.
C20_NeighborsComplete ==
    (resp.op = "get_neighbors" /\ resp.value.center # None) =>
        /\ resp.value.center[1].id = resp.arg
        /\ Ids(resp.value.nodes) = AdjacentIds(neo4j, resp.arg)
        /\ \A n \in BagToSet(resp.value.nodes) :
              /\ CopiesIn(n, resp.value.nodes) = 1
              /\ \E r \in BagToSet(neo4j.nodes) : GraphNodeOf(r) = n
        /\ BagCardinality(resp.value.nodes) = Cardinality(AdjacentIds(neo4j, resp.arg))
        /\ BagCardinality(resp.value.edges)
              = SumCopies(neo4j.rels, Incident(neo4j, resp.arg))
        /\ \A r \in Incident(neo4j, resp.arg) :
              \E e \in BagToSet(resp.value.edges) :
                  /\ e.label = r.type
                  /\ {e.source, e.target} = {r.start, r.end}

\* the neighbours of a post that two users posted: relationships into the
\* post and out of it
C20_Witness ==
    /\ resp.op = "get_neighbors"
    /\ resp.value.center # None
    /\ resp.value.center[1].type = "post"
    /\ Cardinality({n \in BagToSet(resp.value.nodes) : n.type = "user"}) = 2
    /\ \E n \in BagToSet(resp.value.nodes) : n.type = "entity"

----------------------------------------------------------------------------
(* The HTTP handlers over the ephemeral backend.  They are plain functions, *)
(* which the server runs on worker threads: a GET /graph may run between    *)
(* two steps of a POST /analyze.                                            *)

\* sentiment.py:10-13: analyze_posts, then build_knowledge_graph is entered
NxAnalyze(h, posts) ==
    /\ req[h].pc = "idle"
    /\ req' = [req EXCEPT ![h] = [pc |-> "reset", posts |-> posts,
                                  items |-> analyze_posts(posts).items,
                                  stats |-> analyze_posts(posts).stats, i |-> 1, e |-> 0]]
    /\ resp' = NoResp
    /\ hist' = [op |-> "nx_running", before |-> nx,
                overlap |-> \E g \in DOMAIN req : g # h /\ req[g].pc # "idle"]
    /\ UNCHANGED <<neo4j, pc, clearing, left, item, ei, nx, derived, life>>

\* the request returns once the loop over the items ends
NxAdvance(h, r) ==
    IF r.i > Len(r.items)
    THEN /\ req' = [req EXCEPT ![h] = IdleReq]
         /\ hist' = [op |-> "nx_build", batch |-> r.posts,
                     result |-> [items |-> r.items, stats |-> r.stats],
                     before |-> hist.before, overlap |-> hist.overlap,
                     prev |-> IF hist.op = "nx_build" THEN Some(hist.batch) ELSE None]
    ELSE /\ req' = [req EXCEPT ![h] = r]
         /\ UNCHANGED hist

\* a build that keeps filling the graph of the earlier request
NxKeepGraph(h) ==
    /\ req[h].pc = "reset"
    /\ nx' = nx
    /\ NxAdvance(h, [req[h] EXCEPT !.pc = "item"])
    /\ UNCHANGED <<neo4j, pc, clearing, left, item, ei, resp, derived, life>>

\* nlp_service.py:101-102
NxReset(h) ==
    /\ req[h].pc = "reset"
    /\ nx' = NxEmpty
    /\ NxAdvance(h, [req[h] EXCEPT !.pc = "item"])
    /\ UNCHANGED <<neo4j, pc, clearing, left, item, ei, resp, derived, life>>

\* nlp_service.py:104-112
NxItem(h) ==
    /\ req[h].pc = "item"
    /\ LET r == req[h]
           it == r.items[r.i]
       IN  /\ nx' = NxAddItem(nx, it)
           /\ IF it.entities = << >>
              THEN NxAdvance(h, [r EXCEPT !.i = r.i + 1])
              ELSE NxAdvance(h, [r EXCEPT !.pc = "entity", !.e = 1])
    /\ UNCHANGED <<neo4j, pc, clearing, left, item, ei, resp, derived, life>>

\* nlp_service.py:113-117
NxEntity(h) ==
    /\ req[h].pc = "entity"
    /\ LET r == req[h]
           it == r.items[r.i]
       IN  /\ nx' = NxAddEntity(nx, it, it.entities[r.e])
           /\ IF r.e = Len(it.entities)
              THEN NxAdvance(h, [r EXCEPT !.pc = "item", !.i = r.i + 1, !.e = 0])
              ELSE NxAdvance(h, [r EXCEPT !.e = r.e + 1])
    /\ UNCHANGED <<neo4j, pc, clearing, left, item, ei, resp, derived, life>>

\* graph.py:8-10, GET /graph
NxGetGraph ==
    /\ resp' = [op |-> "nx_get_graph_response",
                value |-> nx_get_graph_response(nx),
                quiet |-> \A h \in DOMAIN req : req[h].pc = "idle"]
    /\ UNCHANGED <<neo4j, pc, clearing, left, item, ei, nx, req, hist, derived, life>>

NextNx ==
    \/ \E h \in Handlers :
          \/ \E b \in Batches : NxAnalyze(h, b)
          \/ NxReset(h)
          \/ NxItem(h)
          \/ NxEntity(h)
    \/ NxGetGraph

SpecNx == Init /\ [][NextNx]_vars

\* two worker threads of the server, each running a POST /analyze
OvHandlers == {"h1", "h2"}

\* two requests whose graphs share the user and the platform and no post
OvBatches ==
    {<<Post(<<"1">>, <<"t">>, <<"a">>, <<"x">>)>>,
     <<Post(<<"2">>, <<"t">>, <<"a">>, <<"y">>)>>}

InitOv ==
    /\ neo4j = EmptyStore
    /\ pc = [w \in Writers |-> "idle"]
    /\ clearing = [w \in Writers |-> FALSE]
    /\ left = [w \in Writers |-> 0]
    /\ item = [w \in Writers |-> None]
    /\ ei = [w \in Writers |-> 0]
    /\ nx = NxEmpty
    /\ req = [h \in OvHandlers |-> IdleReq]
    /\ resp = NoResp
    /\ hist = NoHist
    /\ derived = NoDerivation
    /\ app = NotStarted
    /\ _driver = None
    /\ drivers = 0
    /\ sessions = 0
    /\ schema = {}
    /\ call = NoCall
    /\ thr = [t \in Threads |-> IdleThread]

NextOv ==
    \/ \E h \in OvHandlers :
          \/ \E b \in OvBatches : NxAnalyze(h, b)
          \/ NxReset(h)
          \/ NxItem(h)
          \/ NxEntity(h)
    \/ NxGetGraph

SpecOv == InitOv /\ [][NextOv]_vars

\* the batch of the build a snapshot or a graph is compared with: the one that
\* is running, or the one that returned last
BuildBatches ==
    {req[h].posts : h \in {g \in DOMAIN req : req[g].pc # "idle"}}
    \cup (IF hist.op = "nx_build" THEN {hist.batch} ELSE {})

NxGraphOf(batch) == nx_build_knowledge_graph(analyze_posts(batch))

\* C30, first part: a snapshot taken while one build runs, no other build
\* overlapping it, is the graph from before that build or the graph of its
\* batch.
C30_SnapshotWhole ==
    (resp.op = "nx_get_graph_response" /\ ~resp.quiet /\ ~hist.overlap) =>
        \/ resp.value = nx_get_graph_response(hist.before)
        \/ \E b \in BuildBatches : resp.value = nx_get_graph_response(NxGraphOf(b))

\* C30, second part: when two builds overlapped and both have returned, the
\* graph is the graph of one of the two batches.
C30_NoMixedGraph ==
    (hist.op = "nx_build" /\ hist.prev # None
        /\ \A h \in DOMAIN req : req[h].pc = "idle") =>
        nx \in {NxGraphOf(hist.batch), NxGraphOf(hist.prev[1])}

\* C30: a snapshot taken during a build is the whole graph from before it or
\* the whole graph of its batch, and overlapping builds leave the graph of one
\* batch.
C30_AtomicVisibility == C30_SnapshotWhole /\ C30_NoMixedGraph

\* C23: once an /analyze request has returned and no other is running, the
\* snapshot of GET /graph is the graph derived from that request's batch alone:
\* its nodes and its edges, and no node or edge of an earlier request.
C23_LatestAnalysisServed ==
    (resp.op = "nx_get_graph_response" /\ resp.quiet /\ hist.op = "nx_build") =>
        resp.value = nx_get_graph_response(
                         nx_build_knowledge_graph(analyze_posts(hist.batch)))

\* a snapshot taken after a second request whose batch lacks a node that the
\* first request had put into the graph
C23_Witness ==
    /\ resp.op = "nx_get_graph_response"
    /\ resp.quiet
    /\ hist.op = "nx_build"
    /\ hist.batch # << >>
    /\ \E n \in DOMAIN hist.before.attr :
          \A i \in DOMAIN resp.value.nodes : resp.value.nodes[i].id # n

\* C22: the response of /analyze has one item per post of the request, in the
\* request's order, each with its post's id, platform, author and text; its
\* stats count the posts, and the three sentiment counts add up to that count.
C22_AnalyzeShape ==
    hist.op = "nx_build" =>
        LET posts == hist.batch
            res == hist.result
        IN  /\ Len(res.items) = Len(posts)
            /\ \A i \in DOMAIN posts :
                  /\ res.items[i].post_id = posts[i].id
                  /\ res.items[i].platform = posts[i].platform
                  /\ res.items[i].author = posts[i].author
                  /\ res.items[i].text = posts[i].text
            /\ res.stats.total_posts = Len(posts)
            /\ res.stats.positive + res.stats.neutral + res.stats.negative
                  = res.stats.total_posts

\* a request of two posts with the same id and different sentiment
C22_Witness ==
    /\ hist.op = "nx_build"
    /\ Len(hist.batch) = 2
    /\ hist.batch[1].id = hist.batch[2].id
    /\ hist.result.stats.positive = 1 /\ hist.result.stats.negative = 1

HasPrefix(s, pre) == Len(s) >= Len(pre) /\ SubSeq(s, 1, Len(pre)) = pre

DirectionFixed(e) ==
    /\ e.label = "POSTED" => HasPrefix(e.source, UserPrefix) /\ HasPrefix(e.target, PostPrefix)
    /\ e.label = "ON" => HasPrefix(e.source, PostPrefix) /\ HasPrefix(e.target, PlatformPrefix)
    /\ e.label = "MENTIONS" => HasPrefix(e.source, PostPrefix) /\ HasPrefix(e.target, EntityPrefix)

Range(f) == {f[x] : x \in DOMAIN f}

\* C5: in every snapshot either backend returns (on the ephemeral backend: one
\* taken while no request is rebuilding the graph), a POSTED edge runs from a
\* user to a post, an ON edge from a post to a platform and a MENTIONS edge from
\* a post to an entity.
C5_DirectionFixed ==
    /\ resp.op = "get_graph_response" =>
          \A e \in BagToSet(resp.value.edges) : DirectionFixed(e)
    /\ (resp.op = "nx_get_graph_response" /\ resp.quiet) =>
          \A e \in Range(resp.value.edges) : DirectionFixed(e)

\* the snapshot C3 describes for a single post
SinglePostNodeIds(p) ==
    {UserPrefix \o p.author, PostPrefix \o p.id, PlatformPrefix \o p.platform}
    \cup {EntityPrefix \o ent.label \o <<":">> \o ent.text : ent \in Range(_ner(p.text))}

SinglePostEdges(p) ==
    {[source |-> UserPrefix \o p.author, target |-> PostPrefix \o p.id, label |-> "POSTED"],
     [source |-> PostPrefix \o p.id, target |-> PlatformPrefix \o p.platform, label |-> "ON"]}
    \cup {[source |-> PostPrefix \o p.id,
           target |-> EntityPrefix \o ent.label \o <<":">> \o ent.text,
           label |-> "MENTIONS"] : ent \in Range(_ner(p.text))}

\* C3: a single post with k distinct entities ingested into an empty graph gives
\* exactly the 3+k nodes and the 2+k edges user -POSTED-> post, post -ON->
\* platform, post -MENTIONS-> entity, on the persistent and the ephemeral backend.
C3_SinglePostShape ==
    /\ (resp.op = "nx_get_graph_response" /\ resp.quiet
            /\ hist.op = "nx_build" /\ Len(hist.batch) = 1) =>
          /\ {n.id : n \in Range(resp.value.nodes)} = SinglePostNodeIds(hist.batch[1])
          /\ Len(resp.value.nodes) = Cardinality(SinglePostNodeIds(hist.batch[1]))
          /\ Range(resp.value.edges) = SinglePostEdges(hist.batch[1])
          /\ Len(resp.value.edges) = Cardinality(SinglePostEdges(hist.batch[1]))
    /\ (hist.op = "ingest" /\ hist.before = EmptyStore /\ Len(hist.batch) = 1) =>
          LET snap == get_graph_response(neo4j)
          IN  /\ Ids(snap.nodes) = SinglePostNodeIds(hist.batch[1])
              /\ BagCardinality(snap.nodes) = Cardinality(SinglePostNodeIds(hist.batch[1]))
              /\ snap.edges = SetToBag(SinglePostEdges(hist.batch[1]))

\* the labels of the nodes a relationship of a type starts from and ends at
EndKinds(type) ==
    CASE type = "POSTED" -> <<"User", "Post">>
      [] type = "ON" -> <<"Post", "Platform">>
      [] type = "MENTIONS" -> <<"Post", "Entity">>
      [] OTHER -> <<"", "">>

\* every relationship of the store starts and ends at a node of the store, of
\* the label its type asks for
StoreWellFormed(st) ==
    \A r \in BagToSet(st.rels) :
        \E a, b \in BagToSet(st.nodes) :
            /\ a.props.id = r.start /\ a.lbl = EndKinds(r.type)[1]
            /\ b.props.id = r.end /\ b.lbl = EndKinds(r.type)[2]

NxTypeOf(g, n) == IF "type" \in DOMAIN g.attr[n] THEN g.attr[n].type ELSE ""

\* every adjacency entry of the graph names a node of the graph that lists the
\* entry's owner in turn, and joins the two kinds its label asks for
NxWellFormed(g) ==
    /\ DOMAIN g.adj = DOMAIN g.attr
    /\ Range(g.order) = DOMAIN g.attr
    /\ \A n \in DOMAIN g.adj : \A i \in DOMAIN g.adj[n] :
          LET e == g.adj[n][i]
          IN  /\ e.nbr \in DOMAIN g.attr
              /\ \E k \in DOMAIN g.adj[e.nbr] : g.adj[e.nbr][k].nbr = n
              /\ "label" \in DOMAIN e.data
              /\ {NxTypeOf(g, n), NxTypeOf(g, e.nbr)}
                    = {CASE e.data.label = "POSTED" -> "user"
                         [] e.data.label = "ON" -> "platform"
                         [] e.data.label = "MENTIONS" -> "entity"
                         [] OTHER -> "", "post"}

\* C26: whatever replace and accumulate ingestions came before, every edge of
\* either backend has both its endpoints in the graph, and joins a user and a
\* post (POSTED), a post and a platform (ON) or a post and an entity (MENTIONS).
C26_EdgesWellFormed == StoreWellFormed(neo4j) /\ NxWellFormed(nx)

\* after an accumulate ingestion: relationships of the three types in the
\* store, more than one batch's worth, and a node with three neighbours in the
\* ephemeral graph
C26_Witness ==
    /\ hist.op = "both"
    /\ ~hist.clear
    /\ {r.type : r \in BagToSet(neo4j.rels)} = {"POSTED", "ON", "MENTIONS"}
    /\ Cardinality(BagToSet(neo4j.rels)) > 4
    /\ \E n \in DOMAIN nx.adj : Len(nx.adj[n]) > 2

----------------------------------------------------------------------------
(* build_knowledge_graph of both backends on analyses whose entity lists    *)
(* share and repeat entities: _ner appends one entity per match, so a text  *)
(* that holds a match twice gives a list that holds the entity twice.       *)

EntJ == [text |-> <<"J">>, label |-> <<"G">>]
EntK == [text |-> <<"K">>, label |-> <<"G">>]
EntH == [text |-> <<"J">>, label |-> <<"H">>]

\* two entities that differ in label and text and have the same node id
EntGJ == [text |-> <<"K">>, label |-> <<"G", ":", "J">>]
EntJK == [text |-> <<"J", ":", "K">>, label |-> <<"G">>]

\* nlp_service.py:52-70: lists _ner may return
EntLists == {<<EntJ, EntJ>>, <<EntJ, EntK>>, <<EntH>>, <<EntGJ, EntJK>>}

\* analysis_result.py: PostAnalysis; a post with each of the lists and a post
\* of another id that shares two entities with it
EntItems ==
    {[PostAnalysisOf(Post(<<"1">>, <<"t">>, <<"a">>, <<"x">>)) EXCEPT !.entities = es] :
        es \in EntLists}
    \cup {[PostAnalysisOf(Post(<<"2">>, <<"t">>, <<"a">>, <<"y">>))
             EXCEPT !.entities = <<EntJ, EntK>>]}

EntAnalysis(items) ==
    [items |-> items,
     stats |-> [total_posts |-> Len(items),
                positive |-> CountLabel(items, "positive"),
                neutral |-> CountLabel(items, "neutral"),
                negative |-> CountLabel(items, "negative")]]

\* the (post, entity) pairs of an analysis
MentionPairs(items) ==
    UNION {{[post_id |-> items[i].post_id, ent |-> items[i].entities[j]] :
               j \in DOMAIN items[i].entities} : i \in DOMAIN items}

HoldsTwice(es) == \E i, j \in DOMAIN es : i # j /\ es[i] = es[j]

\* graph_service.py:85-153 and nlp_service.py:100-117 on one analysis
EntIngest(items, clear_existing) ==
    /\ neo4j' = build_knowledge_graph(neo4j, EntAnalysis(items), clear_existing)
    /\ nx' = nx_build_knowledge_graph(EntAnalysis(items))
    /\ hist' = [op |-> "entities", clear |-> clear_existing,
                pairs |-> MentionPairs(items),
                twice |-> \E i \in DOMAIN items : HoldsTwice(items[i].entities),
                grown |-> ~clear_existing /\ neo4j.rels # EmptyBag]
    /\ resp' = NoResp
    /\ UNCHANGED <<pc, clearing, left, item, ei, req, derived, life>>

NextEnt == \E items \in SeqsUpTo(EntItems, MaxItems), c \in BOOLEAN : EntIngest(items, c)

SpecEnt == Init /\ [][NextEnt]_vars

\* the nodes of the store with the label and the id, counted with their copies
CountNodes(st, lbl, id) ==
    SumCopies(st.nodes, {n \in BagToSet(st.nodes) : n.lbl = lbl /\ n.props.id = id})

\* C29: after an ingestion, every entity of the analysis has one entity node
\* and every (post, entity) pair of the analysis has one MENTIONS edge, on
\* both backends, however often the entity occurs in one list, in the lists
\* of several posts or in earlier accumulate ingestions; no entity node and
\* no MENTIONS edge exists twice, and a rebuilt graph has no MENTIONS edge
\* beside those of the pairs.
C29_EntitiesShared ==
    hist.op = "entities" =>
        LET snap == nx_get_graph_response(nx)
            mentions == {k \in DOMAIN snap.edges : snap.edges[k].label = "MENTIONS"}
        IN  /\ \A pr \in hist.pairs :
                  /\ CountNodes(neo4j, "Entity",
                                Neo4jEntityKey(pr.ent.label, pr.ent.text)) = 1
                  /\ CopiesIn([start |-> Neo4jPostKey(pr.post_id),
                               end |-> Neo4jEntityKey(pr.ent.label, pr.ent.text),
                               type |-> "MENTIONS"], neo4j.rels) = 1
                  /\ Cardinality({i \in DOMAIN snap.nodes :
                                     snap.nodes[i].id = NxEntityKey(pr.ent.label, pr.ent.text)}) = 1
                  /\ Cardinality({k \in mentions :
                                     {snap.edges[k].source, snap.edges[k].target}
                                        = {NxPostKey(pr.post_id),
                                           NxEntityKey(pr.ent.label, pr.ent.text)}}) = 1
            /\ \A k \in mentions :
                  \E pr \in hist.pairs :
                      {snap.edges[k].source, snap.edges[k].target}
                         = {NxPostKey(pr.post_id), NxEntityKey(pr.ent.label, pr.ent.text)}
            /\ hist.clear =>
                  \A r \in BagToSet(neo4j.rels) :
                      r.type = "MENTIONS" =>
                          \E pr \in hist.pairs :
                              /\ r.start = Neo4jPostKey(pr.post_id)
                              /\ r.end = Neo4jEntityKey(pr.ent.label, pr.ent.text)
            /\ \A n \in BagToSet(neo4j.nodes) :
                  n.lbl = "Entity" => CountNodes(neo4j, "Entity", n.props.id) = 1
            /\ \A r \in BagToSet(neo4j.rels) :
                  r.type = "MENTIONS" => CopiesIn(r, neo4j.rels) = 1

\* an accumulate ingestion onto a store that holds relationships, of an
\* analysis that names an entity twice in one list, leaving an entity that two
\* posts mention
C29_Witness ==
    /\ hist.op = "entities"
    /\ hist.twice
    /\ hist.grown
    /\ \E e \in BagToSet(neo4j.nodes) :
          /\ e.lbl = "Entity"
          /\ Cardinality({r \in BagToSet(neo4j.rels) :
                             r.type = "MENTIONS" /\ r.end = e.props.id}) = 2
    /\ \E n \in DOMAIN nx.adj : NxTypeOf(nx, n) = "entity" /\ Len(nx.adj[n]) = 2

----------------------------------------------------------------------------
(* The Twitter endpoint next to /analyze, each request run to completion.   *)

\* nlp_service.py:100, the parameters of build_knowledge_graph
BuildParams == {"analysis"}

\* a call binds when every keyword it passes names a parameter
Binds(params, keywords) == keywords \subseteq params

\* sentiment.py:9-14 run to completion
TwAnalyze(posts) ==
    /\ nx' = nx_build_knowledge_graph(analyze_posts(posts))
    /\ resp' = [op |-> "analyze", status |-> 200, value |-> analyze_posts(posts)]
    /\ hist' = NoHist
    /\ UNCHANGED <<neo4j, pc, clearing, left, item, ei, req, derived, life>>

\* twitter.py:24-46; fetched is what TwitterFetcher.fetch_posts returned
fetch_and_analyze_twitter(fetched) ==
    /\ IF fetched = << >>
       THEN /\ nx' = nx
            /\ resp' = [op |-> "twitter_fetch", status |-> 404, value |-> None,
                        before |-> nx, after |-> nx]
       ELSE LET result == analyze_posts(fetched)
            IN  IF Binds(BuildParams, {"analysis", "clear_existing"})
                THEN /\ nx' = nx_build_knowledge_graph(result)
                     /\ resp' = [op |-> "twitter_fetch", status |-> 200,
                                 value |-> <<result>>, before |-> nx, after |-> nx']
                ELSE /\ nx' = nx
                     /\ resp' = [op |-> "twitter_fetch", status |-> 500,
                                 value |-> None, before |-> nx, after |-> nx]
    /\ hist' = [op |-> "twitter", fetched |-> fetched]
    /\ UNCHANGED <<neo4j, pc, clearing, left, item, ei, req, derived, life>>

NextTw ==
    \/ \E b \in Batches : TwAnalyze(b)
    \/ \E b \in Batches : fetch_and_analyze_twitter(b)

SpecTw == Init /\ [][NextTw]_vars

\* the node and edge records of g are among those of h
NxRetained(g, h) ==
    /\ Range(nx_get_graph_response(g).nodes) \subseteq Range(nx_get_graph_response(h).nodes)
    /\ Range(nx_get_graph_response(g).edges) \subseteq Range(nx_get_graph_response(h).edges)

\* C24: a Twitter fetch that returned posts answers with their analysis and
\* leaves a graph that holds the nodes of the fetched posts and every node and
\* edge it held before; a fetch that returned no posts answers 404 and leaves
\* the graph as it was.
C24_TwitterAccumulates ==
    resp.op = "twitter_fetch" =>
        IF hist.fetched = << >>
        THEN resp.status = 404 /\ resp.after = resp.before
        ELSE /\ resp.status = 200
             /\ resp.value = <<analyze_posts(hist.fetched)>>
             /\ NxRetained(resp.before, resp.after)
             /\ NxRetained(nx_build_knowledge_graph(analyze_posts(hist.fetched)), resp.after)

\* C24, the part that holds: a fetch that returned no posts answers 404 and
\* leaves the graph as it was
C24_EmptyFetch ==
    (resp.op = "twitter_fetch" /\ hist.fetched = << >>) =>
        resp.status = 404 /\ resp.after = resp.before

C24_EmptyFetchWitness ==
    /\ resp.op = "twitter_fetch"
    /\ hist.fetched = << >>
    /\ resp.before # NxEmpty

----------------------------------------------------------------------------
(* One sequence of ingestions given to both backends.  The persistent       *)
(* backend takes the mode as clear_existing.  The ephemeral backend's       *)
(* build_knowledge_graph(analysis) has no such parameter: called as         *)
(* sentiment.py:13 calls it, it rebuilds the graph; called with             *)
(* clear_existing=False, as twitter.py:44 calls it, it raises TypeError     *)
(* before its body runs.                                                    *)

\* the ephemeral graph after a call made for the given mode
nx_ingest(g, analysis, clear_existing) ==
    IF clear_existing THEN nx_build_knowledge_graph(analysis) ELSE g

\* the same batch, in the same mode, ingested by each backend
BothIngest(batch, clear_existing) ==
    /\ neo4j' = build_knowledge_graph(neo4j, analyze_posts(batch), clear_existing)
    /\ nx' = nx_ingest(nx, analyze_posts(batch), clear_existing)
    /\ hist' = [op |-> "both", batch |-> batch, clear |-> clear_existing,
                raised |-> ~clear_existing]
    /\ resp' = NoResp
    /\ UNCHANGED <<pc, clearing, left, item, ei, req, derived, life>>

\* get_graph_response of each backend
BothGetGraph ==
    /\ resp' = [op |-> "snapshots",
                persistent |-> get_graph_response(neo4j),
                ephemeral |-> nx_get_graph_response(nx)]
    /\ UNCHANGED <<neo4j, pc, clearing, left, item, ei, nx, req, hist, derived, life>>

NextBoth ==
    \/ \E b \in Batches, c \in BOOLEAN : BothIngest(b, c)
    \/ BothGetGraph

SpecBoth == Init /\ [][NextBoth]_vars

\* C12: after the same sequence of ingestions the two backends return snapshots
\* with the same node records (id, label, type) and the same edge records
\* (source, target, label), and neither backend refuses an ingestion mode.
SameSnapshots ==
    resp.op = "snapshots" =>
        /\ BagToSet(resp.persistent.nodes) = Range(resp.ephemeral.nodes)
        /\ BagToSet(resp.persistent.edges) = Range(resp.ephemeral.edges)

BothModesAccepted == hist.op = "both" => ~hist.raised

C12_BackendsEquivalent == SameSnapshots /\ BothModesAccepted

\* the id prefix of the kind a snapshot type names
PrefixOfType(type) ==
    CASE type = "post" -> PostPrefix
      [] type = "user" -> UserPrefix
      [] type = "platform" -> PlatformPrefix
      [] type = "entity" -> EntityPrefix
      [] OTHER -> << >>

\* the type is one of the four kinds and the node was ingested as that kind
TypeMatches(n) ==
    /\ n.type \in {"user", "post", "platform", "entity"}
    /\ HasPrefix(n.id, PrefixOfType(n.type))

\* number of adjacency entries of the ephemeral graph: two per edge
RECURSIVE NxDegreeSum(_, _)
NxDegreeSum(g, i) ==
    IF i > Len(g.order) THEN 0 ELSE Len(g.adj[g.order[i]]) + NxDegreeSum(g, i + 1)

NxAdjacent(g, u, v, label) ==
    /\ u \in DOMAIN g.adj
    /\ \E k \in DOMAIN g.adj[u] : g.adj[u][k].nbr = v /\ g.adj[u][k].data.label = label

\* C18: a snapshot holds exactly one node record per node of the graph and
\* exactly one edge record per stored relationship, and each node's type is
\* the lower-case kind it was ingested as; on the persistent and on the
\* ephemeral backend.
C18_SnapshotComplete ==
    resp.op = "snapshots" =>
        /\ BagCardinality(resp.persistent.nodes) = BagCardinality(neo4j.nodes)
        /\ Ids(resp.persistent.nodes) = {r.props.id : r \in BagToSet(neo4j.nodes)}
        /\ \A n \in BagToSet(resp.persistent.nodes) : TypeMatches(n)
        /\ BagCardinality(resp.persistent.edges) = BagCardinality(neo4j.rels)
        /\ \A r \in BagToSet(neo4j.rels) :
              CopiesIn([source |-> r.start, target |-> r.end, label |-> r.type],
                       resp.persistent.edges) = CopiesIn(r, neo4j.rels)
        /\ Len(resp.ephemeral.nodes) = Cardinality(DOMAIN nx.attr)
        /\ {n.id : n \in Range(resp.ephemeral.nodes)} = DOMAIN nx.attr
        /\ \A n \in Range(resp.ephemeral.nodes) : TypeMatches(n)
        /\ 2 * Len(resp.ephemeral.edges) = NxDegreeSum(nx, 1)
        /\ \A e \in Range(resp.ephemeral.edges) : NxAdjacent(nx, e.source, e.target, e.label)
        /\ \A u \in DOMAIN nx.adj : \A k \in DOMAIN nx.adj[u] :
              \E e \in Range(resp.ephemeral.edges) :
                  {e.source, e.target} = {u, nx.adj[u][k].nbr}

\* snapshots of two graphs that hold two posts, their entities and all edges
C18_Witness ==
    /\ resp.op = "snapshots"
    /\ BagCardinality(resp.persistent.nodes) >= 6
    /\ BagCardinality(resp.persistent.edges) >= 7
    /\ Len(resp.ephemeral.nodes) >= 6
    /\ Len(resp.ephemeral.edges) >= 7

----------------------------------------------------------------------------
(* The operations of Neo4jGraphService statement by statement, with the     *)
(* sessions they open and the failures the driver may raise.  An operation  *)
(* is the sequence of its steps: entering a `with cls.get_session()` block, *)
(* a session.run, leaving the block.  An exception unwinds the blocks       *)
(* entered and not yet left, innermost first.                               *)

Enter == [k |-> "enter"]
Exit == [k |-> "exit"]
Run(stmt, arg) == [k |-> "run", stmt |-> stmt, arg |-> arg]

\* graph_service.py:65-70
ConstraintNames == <<"post_id", "user_id", "platform_id", "entity_id">>

\* the four statements of one item, then one per entity
ItemRuns(it) ==
    <<Run("post", it), Run("user", it), Run("platform", it)>>
    \o [i \in DOMAIN it.entities |-> Run("entity", [it |-> it, ent |-> it.entities[i]])]

RECURSIVE BatchRuns(_, _)
BatchRuns(items, i) ==
    IF i > Len(items) THEN << >> ELSE ItemRuns(items[i]) \o BatchRuns(items, i + 1)

init_constraints_steps ==
    <<Enter>> \o [i \in DOMAIN ConstraintNames |-> Run("constraint", ConstraintNames[i])]
    \o <<Exit>>

clear_graph_steps == <<Enter, Run("clear", None), Exit>>

build_knowledge_graph_steps(analysis, clear_existing) ==
    (IF ShouldClear(clear_existing) THEN clear_graph_steps ELSE << >>)
    \o <<Enter>> \o BatchRuns(analysis.items, 1) \o <<Exit>>

get_graph_response_steps == <<Enter, Run("nodes", None), Run("rels", None), Exit>>

get_node_by_id_steps(node_id) == <<Enter, Run("node", node_id), Exit>>

\* the center node is fetched by get_node_by_id inside the outer block
get_neighbors_steps(node_id) ==
    <<Enter>> \o get_node_by_id_steps(node_id) \o <<Run("neighbors", node_id), Exit>>

\* the lookup of a node written with MERGE: a node that is absent is created
ExecMergeOnLookup(st, ins) ==
    CASE ins.stmt = "clear" -> clear_graph(st)
      [] ins.stmt = "post" -> StmtPost(st, ins.arg)
      [] ins.stmt = "user" -> StmtUser(st, ins.arg)
      [] ins.stmt = "platform" -> StmtPlatform(st, ins.arg)
      [] ins.stmt = "entity" -> StmtEntity(st, ins.arg.it, ins.arg.ent)
      [] ins.stmt = "node" ->
            [st EXCEPT !.nodes = IF \E r \in BagToSet(st.nodes) : r.props.id = ins.arg
                                 THEN st.nodes
                                 ELSE st.nodes (+) SetToBag({[lbl |-> "Entity",
                                                              props |-> [id |-> ins.arg]]})]
      [] OTHER -> st

\* the store after a statement that succeeded
ExecWrite(st, ins) ==
    CASE ins.stmt = "clear" -> clear_graph(st)
      [] ins.stmt = "post" -> StmtPost(st, ins.arg)
      [] ins.stmt = "user" -> StmtUser(st, ins.arg)
      [] ins.stmt = "platform" -> StmtPlatform(st, ins.arg)
      [] ins.stmt = "entity" -> StmtEntity(st, ins.arg.it, ins.arg.ent)
      [] OTHER -> st

\* what the operation holds after a query statement: the values it may hold
ExecRead(st, ins, val) ==
    CASE ins.stmt = "rels" -> {get_graph_response(st)}
      [] ins.stmt = "node" -> get_node_by_id(st, ins.arg)
      [] ins.stmt = "neighbors" -> {get_neighbors(st, ins.arg, val)}
      [] OTHER -> {val}

\* what a session.run may raise
StmtErrors(ins) ==
    IF ins.stmt = "constraint" THEN {"ConstraintAlreadyExists", "ServiceUnavailable"}
    ELSE {"ServiceUnavailable"}

\* graph_service.py:73-77: try: session.run(constraint) except Exception: pass
Swallows(op, err) == op = "init_constraints"

\* a failed statement is rolled back together with the ones before it
RollBack(st, before) == before

\* the store when a statement raised: no transaction spans the statements
OnFailure(st, before) == st

\* the session is closed only when the block is left without an exception
CloseOnReturnOnly(n, exc) == IF exc = None THEN n - 1 ELSE n

\* graph_service.py:47-50: finally: session.close()
session_close(n, exc) == n - 1

\* the write statements of an operation, in order
RunsOf(prog) == SelectSeq(prog, LAMBDA ins : ins.k = "run")

NewCall(op, arg, prog) ==
    [op |-> op, arg |-> arg, prog |-> prog, ip |-> 1, held |-> 0, exc |-> None,
     val |-> None, before |-> neo4j, done |-> 0, tried |-> 0,
     swallowed |-> {}, failed |-> {}]

\* a caller invokes an operation of the service
SvcCall(op, arg, prog) ==
    /\ call = NoCall
    /\ call' = NewCall(op, arg, prog)
    /\ resp' = NoResp
    /\ UNCHANGED <<neo4j, pc, clearing, left, item, ei, nx, req, hist, derived,
                   app, _driver, drivers, sessions, schema, thr>>

AtStep(kind) ==
    /\ call # NoCall
    /\ call.exc = None
    /\ call.ip <= Len(call.prog)
    /\ call.prog[call.ip].k = kind

\* graph_service.py:45-46 with get_driver (24-32): the driver is created if
\* there is none, then a session is opened; either may raise
SvcEnter ==
    /\ AtStep("enter")
    /\ \E outcome \in {"ok", "no_session"} \cup (IF _driver = None THEN {"no_driver"} ELSE {}) :
          /\ _driver' = IF outcome = "no_driver" THEN None ELSE Some("driver")
          /\ drivers' = IF outcome # "no_driver" /\ _driver = None THEN drivers + 1 ELSE drivers
          /\ sessions' = IF outcome = "ok" THEN sessions + 1 ELSE sessions
          /\ call' = IF outcome = "ok"
                     THEN [call EXCEPT !.ip = @ + 1, !.held = @ + 1]
                     ELSE [call EXCEPT !.exc = Some("ServiceUnavailable"),
                                       !.failed = @ \cup {"ServiceUnavailable"}]
    /\ UNCHANGED <<neo4j, pc, clearing, left, item, ei, nx, req, resp, hist, derived,
                   app, schema, thr>>

\* one session.run: it commits, or it raises and leaves the store as it was
SvcRun ==
    /\ AtStep("run")
    /\ LET ins == call.prog[call.ip]
       IN  \E e \in {None} \cup {Some(x) : x \in StmtErrors(ins)} :
              IF e = None
              THEN /\ neo4j' = ExecWrite(neo4j, ins)
                   /\ schema' = IF ins.stmt = "constraint" THEN schema \cup {ins.arg}
                                ELSE schema
                   /\ \E v \in ExecRead(neo4j, ins, call.val) :
                         call' = [call EXCEPT !.ip = @ + 1, !.done = @ + 1,
                                              !.tried = @ + 1, !.val = v]
              ELSE /\ schema' = schema
                   /\ IF Swallows(call.op, e[1])
                      THEN /\ neo4j' = neo4j
                           /\ call' = [call EXCEPT !.ip = @ + 1, !.tried = @ + 1,
                                                !.swallowed = @ \cup {e[1]},
                                                !.failed = @ \cup {e[1]}]
                      ELSE /\ neo4j' = OnFailure(neo4j, call.before)
                           /\ call' = [call EXCEPT !.exc = e, !.tried = @ + 1,
                                                !.failed = @ \cup {e[1]}]
    /\ UNCHANGED <<pc, clearing, left, item, ei, nx, req, resp, hist, derived,
                   app, _driver, drivers, sessions, thr>>

\* a with block is left, by its last statement or by an exception
SvcExit ==
    /\ call # NoCall
    /\ call.held > 0
    /\ call.exc # None \/ AtStep("exit")
    /\ sessions' = session_close(sessions, call.exc)
    /\ call' = IF call.exc = None
               THEN [call EXCEPT !.ip = @ + 1, !.held = @ - 1]
               ELSE [call EXCEPT !.held = @ - 1]
    /\ UNCHANGED <<neo4j, pc, clearing, left, item, ei, nx, req, resp, hist, derived,
                   app, _driver, drivers, schema, thr>>

\* the lifespan lets the exception escape: the application does not start
StartupAborts(exc) == "failed"

\* main.py:21-22: except Exception as e: print(...)
AfterStartupError(exc) == "serving"

\* the operation returns or raises
SvcReturn ==
    /\ call # NoCall
    /\ \/ call.exc = None /\ call.ip > Len(call.prog)
       \/ call.exc # None /\ call.held = 0
    /\ resp' = [op |-> call.op, arg |-> call.arg, raised |-> call.exc, value |-> call.val,
                before |-> call.before, stmts |-> RunsOf(call.prog), done |-> call.done,
                tried |-> call.tried, swallowed |-> call.swallowed, failed |-> call.failed]
    /\ call' = NoCall
    /\ app' = IF app.phase = "init"
              THEN [app EXCEPT !.phase = IF call.exc = None THEN "serving"
                                         ELSE AfterStartupError(call.exc)]
              ELSE app
    /\ UNCHANGED <<neo4j, pc, clearing, left, item, ei, nx, req, hist, derived,
                   _driver, drivers, sessions, schema, thr>>

\* the batches a caller ingests: none, one post, and two posts of which the
\* first rewrites the post of the one-post batch
SvcBatches ==
    {<< >>,
     <<Post(<<"1">>, <<"t">>, <<"a">>, <<"x">>)>>,
     <<Post(<<"1">>, <<"f">>, <<"b">>, <<"y">>), Post(<<"2">>, <<"t">>, <<"a">>, <<"y">>)>>}

NextSvc ==
    \/ SvcCall("init_constraints", None, init_constraints_steps)
    \/ SvcCall("clear_graph", None, clear_graph_steps)
    \/ \E b \in SvcBatches, c \in BOOLEAN :
          SvcCall("build_knowledge_graph", [batch |-> b, clear_existing |-> c],
                  build_knowledge_graph_steps(analyze_posts(b), c))
    \/ SvcCall("get_graph_response", None, get_graph_response_steps)
    \/ \E q \in QueryIds : SvcCall("get_node_by_id", q, get_node_by_id_steps(q))
    \/ \E q \in QueryIds : SvcCall("get_neighbors", q, get_neighbors_steps(q))
    \/ SvcEnter
    \/ SvcRun
    \/ SvcExit
    \/ SvcReturn

SpecSvc == Init /\ [][NextSvc]_vars

\* C13: while an operation is in flight the open sessions are the ones its
\* with blocks hold, and once it has returned or raised (no operation in
\* flight) no session is open, whether or not a statement failed.
C13_SessionsReleased ==
    IF call = NoCall THEN sessions = 0 ELSE sessions = call.held

\* get_neighbors has raised from the query of the nested get_node_by_id, made
\* while two sessions were open
C13_Witness ==
    /\ call = NoCall
    /\ resp.op = "get_neighbors"
    /\ resp.raised # None
    /\ resp.tried = 1 /\ resp.done = 0

\* the store after the first n statements of a sequence of statements
RECURSIVE ApplyRuns(_, _, _)
ApplyRuns(st, runs, n) ==
    IF n = 0 THEN st
    ELSE ExecWrite(ApplyRuns(st, runs, n - 1), runs[n])

\* C15: an operation swallows a failure only if it is the constraint-already-
\* exists outcome of init_constraints; any other failure makes the operation
\* raise; init_constraints, unless it raises, attempts all four constraints.
C15_OnlyExistsSwallowed ==
    "swallowed" \in DOMAIN resp =>
        /\ resp.swallowed \subseteq {"ConstraintAlreadyExists"}
        /\ (resp.failed \ {"ConstraintAlreadyExists"} # {}) => resp.raised # None
        /\ (resp.op = "init_constraints" /\ resp.raised = None)
              => resp.tried = Len(ConstraintNames)

\* C17: when build_knowledge_graph met a failure it raised; the graph is then
\* the graph before the call with exactly the statements that succeeded before
\* the failure applied (a replace-mode clear included), and at most one
\* statement, the failing one, was attempted after them.
C17_PartialApplication ==
    resp.op = "build_knowledge_graph" =>
        /\ resp.failed # {} => resp.raised # None
        /\ resp.raised # None =>
              /\ neo4j = ApplyRuns(resp.before, resp.stmts, resp.done)
              /\ resp.tried <= resp.done + 1

\* a replace-mode ingestion into a graph that held nodes failed at its fifth
\* statement, after the clear and the first three upserts
C17_Witness ==
    /\ resp.op = "build_knowledge_graph"
    /\ resp.raised # None
    /\ resp.arg.clear_existing
    /\ resp.before.nodes # EmptyBag
    /\ resp.done = 4 /\ resp.tried = 5
    /\ BagCardinality(neo4j.nodes) = 3

----------------------------------------------------------------------------
(* The queries of both backends between ingestions.  What a query of the    *)
(* persistent backend does to the store is what its statements do to it.    *)

QueryOps == {"get_graph_response", "get_node_by_id", "get_neighbors",
             "nx_get_graph_response"}

\* graph_service.py:155-198
QueryGetGraph ==
    /\ neo4j' = ApplyRuns(neo4j, RunsOf(get_graph_response_steps), 2)
    /\ resp' = [op |-> "get_graph_response", arg |-> None,
                value |-> get_graph_response(neo4j)]
    /\ UNCHANGED <<pc, clearing, left, item, ei, nx, req, hist, derived, life>>

\* graph_service.py:200-220
QueryGetNode(q) ==
    /\ neo4j' = ApplyRuns(neo4j, RunsOf(get_node_by_id_steps(q)), 1)
    /\ \E v \in get_node_by_id(neo4j, q) :
          resp' = [op |-> "get_node_by_id", arg |-> q, value |-> v]
    /\ UNCHANGED <<pc, clearing, left, item, ei, nx, req, hist, derived, life>>

\* graph_service.py:222-267
QueryGetNeighbors(q) ==
    /\ neo4j' = ApplyRuns(neo4j, RunsOf(get_neighbors_steps(q)), 2)
    /\ \E c \in get_node_by_id(neo4j, q) :
          resp' = [op |-> "get_neighbors", arg |-> q,
                   value |-> get_neighbors(neo4j, q, c)]
    /\ UNCHANGED <<pc, clearing, left, item, ei, nx, req, hist, derived, life>>

\* nlp_service.py:120-129: the views of _graph are iterated and each data
\* dict is read with get
QueryNxGetGraph ==
    /\ resp' = [op |-> "nx_get_graph_response", arg |-> None,
                value |-> nx_get_graph_response(nx)]
    /\ UNCHANGED <<neo4j, pc, clearing, left, item, ei, nx, req, hist, derived, life>>

NextQuery ==
    \/ \E b \in SvcBatches, c \in BOOLEAN : BothIngest(b, c)
    \/ QueryGetGraph
    \/ \E q \in QueryIds : QueryGetNode(q)
    \/ \E q \in QueryIds : QueryGetNeighbors(q)
    \/ QueryNxGetGraph

SpecQuery == Init /\ [][NextQuery]_vars

\* C25: a step that is a query (of either backend, whatever its argument and
\* whatever it returns) leaves the persistent store's nodes, their properties
\* and relationships, and the ephemeral graph's nodes, attributes and edges,
\* as they were.
C25_QueriesReadOnly ==
    [][resp'.op \in QueryOps => (neo4j' = neo4j /\ nx' = nx)]_vars

\* queries on a graph that holds nodes: one that finds its node, one that
\* finds none, neighbours of a node that has some
C25_Witness ==
    /\ neo4j.nodes # EmptyBag
    /\ nx # NxEmpty
    /\ \/ resp.op = "get_node_by_id" /\ resp.value = None
       \/ resp.op = "get_neighbors" /\ resp.value.center # None
                                    /\ resp.value.nodes # EmptyBag

----------------------------------------------------------------------------
(* main.lifespan: startup, serving, shutdown.  The application mounts the   *)
(* sentiment and graph routers, whose handlers use the ephemeral backend,   *)
(* and /health; only the lifespan touches the Neo4j service.                *)

\* what verify_connectivity may do: GraphDatabase.driver gives a driver or
\* raises, then driver.verify_connectivity returns or raises
VerifyOutcomes ==
    {[created |-> c, result |-> r] :
        c \in BOOLEAN, r \in {"true", "false", "raised"}}
    \ {[created |-> FALSE, result |-> "true"]}

\* main.py:15-22 with verify_connectivity (graph_service.py:52-60)
LifeVerify ==
    /\ app.phase = "startup"
    /\ \E o \in VerifyOutcomes :
          /\ _driver' = IF o.created THEN Some("driver") ELSE None
          /\ drivers' = IF o.created THEN drivers + 1 ELSE drivers
          /\ app' = [phase |-> CASE o.result = "true" -> "init"
                                 [] o.result = "false" -> "serving"
                                 [] o.result = "raised" -> AfterStartupError(o),
                      verify |-> o.result]
          /\ call' = IF o.result = "true"
                     THEN NewCall("init_constraints", None, init_constraints_steps)
                     ELSE NoCall
    /\ UNCHANGED <<neo4j, pc, clearing, left, item, ei, nx, req, resp, hist, derived,
                   sessions, schema, thr>>

\* main.py:45-47
Health ==
    /\ app.phase = "serving"
    /\ resp' = [op |-> "health", value |-> [status |-> "ok"]]
    /\ UNCHANGED <<neo4j, pc, clearing, left, item, ei, nx, req, hist, derived, life>>

\* close() that leaves the driver where it is
CloseKeepsDriver(d, n) == [_driver |-> d, drivers |-> n]

\* Neo4jGraphService.close: the class-level driver and the open drivers after it
close(d, n) ==
    IF d # None THEN [_driver |-> None, drivers |-> n - 1]
    ELSE [_driver |-> d, drivers |-> n]

\* main.py:26-28
Shutdown ==
    /\ app.phase = "serving"
    /\ call = NoCall
    /\ \A h \in Handlers : req[h] = IdleReq
    /\ _driver' = close(_driver, drivers)._driver
    /\ drivers' = close(_driver, drivers).drivers
    /\ app' = [app EXCEPT !.phase = "stopped"]
    /\ UNCHANGED <<neo4j, pc, clearing, left, item, ei, nx, req, resp, hist, derived,
                   sessions, schema, call, thr>>

\* the steps of the startup part
Startup == LifeVerify \/ SvcEnter \/ SvcRun \/ SvcExit \/ SvcReturn

NextLife ==
    \/ Startup
    \/ Health
    \/ Shutdown

SpecLife == Init /\ [][NextLife]_vars

\* the startup part runs on without waiting for anything but the driver, whose
\* calls return or raise
SpecLifeFair == SpecLife /\ WF_vars(Startup)

\* C14: the lifespan reaches the serving state whatever verify_connectivity
\* and init_constraints do; init_constraints runs only after
\* verify_connectivity returned true; /health answers status ok.
C14_StartupDegrades ==
    /\ <>(app.phase = "serving")
    /\ [](call.op = "init_constraints" => app.verify = "true")
    /\ [](resp.op = "health" => resp.value = [status |-> "ok"])

\* serving after init_constraints raised
C14_Witness ==
    /\ app.phase = "serving"
    /\ resp.op = "init_constraints" /\ resp.raised # None

\* C16: once the shutdown part has run, the class-level driver is None and no
\* driver object is left open, whether startup created a driver or not.
C16_ShutdownReleases ==
    app.phase = "stopped" => (_driver = None /\ drivers = 0)

\* stopped after a startup that created the driver and verified it
C16_Witness ==
    /\ app.phase = "stopped"
    /\ app.verify = "true"
    /\ _driver = None

----------------------------------------------------------------------------
(* get_session called from request threads.  In get_driver the test of     *)
(* cls._driver, the call of GraphDatabase.driver and the store into         *)
(* cls._driver are separate bytecodes: the interpreter may switch threads   *)
(* between any two of them.  A driver object is named by the number of      *)
(* drivers open when it was created, plus one.                              *)

MaxDrivers == 2

\* graph_service.py:45, a thread enters get_session and, in it, get_driver
DrvCall(t) ==
    /\ thr[t] = IdleThread
    /\ app.phase # "stopped"
    /\ drivers < MaxDrivers
    /\ thr' = [thr EXCEPT ![t] = [pc |-> "test"]]
    /\ UNCHANGED <<neo4j, pc, clearing, left, item, ei, nx, req, resp, hist, derived,
                   app, _driver, drivers, sessions, schema, call>>

\* graph_service.py:27, if cls._driver is None
DrvTest(t) ==
    /\ thr[t].pc = "test"
    /\ thr' = [thr EXCEPT ![t] = [pc |-> IF _driver = None THEN "create" ELSE "return"]]
    /\ UNCHANGED <<neo4j, pc, clearing, left, item, ei, nx, req, resp, hist, derived,
                   app, _driver, drivers, sessions, schema, call>>

\* graph_service.py:28-31, GraphDatabase.driver(...) gives a new driver object
DrvCreate(t) ==
    /\ thr[t].pc = "create"
    /\ drivers' = drivers + 1
    /\ thr' = [thr EXCEPT ![t] = [pc |-> "assign", new |-> drivers + 1]]
    /\ UNCHANGED <<neo4j, pc, clearing, left, item, ei, nx, req, resp, hist, derived,
                   app, _driver, sessions, schema, call>>

\* graph_service.py:28, cls._driver = ...: the object stored before, if any,
\* is no longer referenced and stays open
DrvAssign(t) ==
    /\ thr[t].pc = "assign"
    /\ _driver' = Some(thr[t].new)
    /\ thr' = [thr EXCEPT ![t] = [pc |-> "return"]]
    /\ UNCHANGED <<neo4j, pc, clearing, left, item, ei, nx, req, resp, hist, derived,
                   app, drivers, sessions, schema, call>>

\* graph_service.py:32 and 45-46, return cls._driver; the caller opens a
\* session on the driver it got
DrvReturn(t) ==
    /\ thr[t].pc = "return"
    /\ resp' = [op |-> "get_driver", thread |-> t, value |-> _driver]
    /\ sessions' = sessions + 1
    /\ thr' = [thr EXCEPT ![t] = [pc |-> "session", driver |-> _driver]]
    /\ UNCHANGED <<neo4j, pc, clearing, left, item, ei, nx, req, hist, derived,
                   app, _driver, drivers, schema, call>>

\* graph_service.py:47-50, the with block ends and the session is closed
DrvSessionClose(t) ==
    /\ thr[t].pc = "session"
    /\ sessions' = session_close(sessions, None)
    /\ thr' = [thr EXCEPT ![t] = IdleThread]
    /\ UNCHANGED <<neo4j, pc, clearing, left, item, ei, nx, req, resp, hist, derived,
                   app, _driver, drivers, schema, call>>

\* main.py:27, close() once the server has drained its requests
DrvClose ==
    /\ app.phase # "stopped"
    /\ \A t \in Threads : thr[t] = IdleThread
    /\ _driver' = close(_driver, drivers)._driver
    /\ drivers' = close(_driver, drivers).drivers
    /\ app' = [app EXCEPT !.phase = "stopped"]
    /\ UNCHANGED <<neo4j, pc, clearing, left, item, ei, nx, req, resp, hist, derived,
                   sessions, schema, call, thr>>

NextDrv ==
    \/ \E t \in Threads :
          \/ DrvCall(t)
          \/ DrvTest(t)
          \/ DrvCreate(t)
          \/ DrvAssign(t)
          \/ DrvReturn(t)
          \/ DrvSessionClose(t)
    \/ DrvClose

SpecDrv == Init /\ [][NextDrv]_vars

\* C21: at most one driver object is open at any time, whatever the
\* interleaving of the get_driver calls; two threads that hold a driver hold
\* the same one; none is open after close().
C21_SingleDriver ==
    /\ drivers <= 1
    /\ \A t, u \in Threads :
          (thr[t].pc = "session" /\ thr[u].pc = "session") => thr[t].driver = thr[u].driver
    /\ app.phase = "stopped" => drivers = 0

----------------------------------------------------------------------------
(* Key derivation as a function of (kind, natural identifier), at either    *)
(* backend's derivation site.                                               *)

Alphabet == {"a", ":"}

Strs == SeqsUpTo(Alphabet, MaxStrLen) \ {<< >>}

Sites == {"neo4j", "nx"}

\* (site, kind, natural identifier): one string, or (label, text) for an entity
KeyInputs ==
    {[site |-> s, kind |-> k, nat |-> <<x>>] :
        s \in Sites, k \in {"user", "post", "platform"}, x \in Strs}
    \cup {[site |-> s, kind |-> "entity", nat |-> <<l, t>>] :
            s \in Sites, l \in Strs, t \in Strs}

KeyAt(in) ==
    IF in.site = "neo4j"
    THEN CASE in.kind = "post" -> Neo4jPostKey(in.nat[1])
           [] in.kind = "user" -> Neo4jUserKey(in.nat[1])
           [] in.kind = "platform" -> Neo4jPlatformKey(in.nat[1])
           [] in.kind = "entity" -> Neo4jEntityKey(in.nat[1], in.nat[2])
    ELSE CASE in.kind = "post" -> NxPostKey(in.nat[1])
           [] in.kind = "user" -> NxUserKey(in.nat[1])
           [] in.kind = "platform" -> NxPlatformKey(in.nat[1])
           [] in.kind = "entity" -> NxEntityKey(in.nat[1], in.nat[2])

InitKey ==
    /\ InitBase
    /\ derived \in {[a |-> Some(x), b |-> Some(y), ka |-> None, kb |-> None] :
                      x \in KeyInputs, y \in KeyInputs}

DeriveA ==
    /\ derived.ka = None
    /\ derived' = [derived EXCEPT !.ka = Some(KeyAt(derived.a[1]))]
    /\ UNCHANGED <<neo4j, pc, clearing, left, item, ei, nx, req, resp, hist, life>>

DeriveB ==
    /\ derived.kb = None
    /\ derived' = [derived EXCEPT !.kb = Some(KeyAt(derived.b[1]))]
    /\ UNCHANGED <<neo4j, pc, clearing, left, item, ei, nx, req, resp, hist, life>>

NextKey == DeriveA \/ DeriveB

SpecKey == InitKey /\ [][NextKey]_vars

BothDerived == derived.ka # None /\ derived.kb # None

\* C7: two derivations for the same (kind, natural identifier), at the same or
\* at different backends, give the same key.
C7_KeyDeterministic ==
    (BothDerived /\ derived.a[1].kind = derived.b[1].kind
                 /\ derived.a[1].nat = derived.b[1].nat)
        => derived.ka = derived.kb

C7_Witness ==
    /\ BothDerived
    /\ derived.a[1].site = "neo4j" /\ derived.b[1].site = "nx"
    /\ derived.a[1].kind = "entity" /\ derived.b[1].kind = "entity"
    /\ derived.a[1].nat = derived.b[1].nat
    /\ derived.a[1].nat[1] # derived.a[1].nat[2]

\* C8: two derivations that give the same key were made for the same kind and
\* the same natural identifier.
C8_KeyInjective ==
    (BothDerived /\ derived.ka = derived.kb)
        => /\ derived.a[1].kind = derived.b[1].kind
           /\ derived.a[1].nat = derived.b[1].nat

====
